---- MODULE Spec2Model ----
(***************************************************************************)
(* A model of GeoData/GeoData.py: the GeoData container (construction,     *)
(* equality, timeslice, interpolate) and its h5 serialisation              *)
(* (write_h5, read_h5_main, read_h5).                                      *)
(*                                                                         *)
(* Python objects that can be aliased are modelled with a heap: `objs`     *)
(* holds the GeoData instances, `dicts` the dictionary objects their       *)
(* `data` attribute points to.  numpy arrays are values: a 2-D array is a  *)
(* sequence of rows, each row a sequence of numbers; every operation of    *)
(* the source that produces an array (fancy indexing, np.zeros) produces   *)
(* a new one.  Python indices are 0-based, sequence indices 1-based.       *)
(***************************************************************************)
EXTENDS Integers, Sequences, FiniteSets, TLC

VARIABLES
    objs,       \* heap of GeoData instances: Seq of [data, coordnames, dataloc, sensorloc, times]
    dicts,      \* heap of dict objects: Seq of functions key -> 2-D array
    last,       \* the last call made on the heap, its arguments, outcome and pre-state
    eqA, eqB,   \* the two containers handed to __eq__ / __ne__
    eqOut,      \* the results of __eq__ and __ne__ on them
    ctorIn,     \* the tuple a reader returned to GeoData.__init__
    ctorOut,    \* the outcome of that construction
    h5src,      \* the container write_h5 is called on
    h5file,     \* the h5 file on disk: group pathname -> (array name -> node)
    h5open,     \* number of file handles currently open
    h5last      \* the last h5 call, its outcome and result

heapvars == <<objs, dicts, last>>
eqvars   == <<eqA, eqB, eqOut>>
ctorvars == <<ctorIn, ctorOut>>
h5vars   == <<h5src, h5file, h5open, h5last>>
vars     == <<objs, dicts, last, eqA, eqB, eqOut, ctorIn, ctorOut,
              h5src, h5file, h5open, h5last>>

(***************************************************************************)
(* Bounds of the model.                                                    *)
(***************************************************************************)
MaxCalls   == 2     \* calls of timeslice and interpolate in one run
MaxH5Calls == 2     \* calls of write_h5, read_h5_main and read_h5 in one run
NumTimes   == 5     \* entries of the initial time axis

(***************************************************************************)
(* numpy values.                                                           *)
(***************************************************************************)
\* np.nan, encoded as a number no datum of the model uses.  np.isnan is
\* true of it alone, and it compares unequal to everything, itself included.
NaN == -1

isnan(x) == x = NaN

\* The ufunc equal on two scalars (IEEE: a NaN is equal to nothing).
equal(x, y) == ~isnan(x) /\ ~isnan(y) /\ x = y

Rows(a) == Len(a)
Cols(a) == Len(a[1])

\* a[:, j] for a 0-based column j.
Column(a, j) == [r \in 1..Len(a) |-> a[r][j + 1]]

\* a[loclist] for a list of 0-based row indices (fancy indexing: a new array).
TakeRows(a, loclist) == [i \in 1..Len(loclist) |-> a[loclist[i] + 1]]

\* a[:, loclist] for a list of 0-based column indices (a new array).
TakeCols(a, loclist) ==
    [r \in 1..Len(a) |-> [i \in 1..Len(loclist) |-> a[r][loclist[i] + 1]]]

\* Every index of loclist addresses one of n entries.
InRange(loclist, n) == \A i \in 1..Len(loclist) : loclist[i] >= 0 /\ loclist[i] < n

\* The increasing sequence of the members of a finite set of naturals.
RECURSIVE SortedSeq(_)
SortedSeq(S) ==
    IF S = {} THEN <<>>
    ELSE LET m == CHOOSE x \in S : \A y \in S : x <= y
         IN  <<m>> \o SortedSeq(S \ {m})

\* The members of a set of strings as a sequence, in one fixed order.
RECURSIVE SetToSeq(_)
SetToSeq(S) ==
    IF S = {} THEN <<>>
    ELSE LET m == CHOOSE x \in S : TRUE
         IN  <<m>> \o SetToSeq(S \ {m})

(***************************************************************************)
(* GeoData.timeslice.                                                      *)
(***************************************************************************)
\* np.in1d(ar1, ar2): for each entry of ar1, whether it occurs in ar2.
in1d(ar1, ar2) == [i \in 1..Len(ar1) |-> \E j \in 1..Len(ar2) : ar1[i] = ar2[j]]

\* A variant of where that counts positions from 1.
where_onebased(ix) == SortedSeq({k \in 1..Len(ix) : ix[k]})

\* np.where(ix)[0]: the 0-based positions at which ix is true, increasing.
where(ix) == SortedSeq({i - 1 : i \in {k \in 1..Len(ix) : ix[k]}})

ListTypes == {"None", "Array", "Time"}

\* Lines 86-92: the index list timeslice uses.  (For no other listtype is
\* loclist bound; the caller handles that case.)
loclist(times, timelist, listtype) ==
    IF listtype = "Time" THEN where(in1d(Column(times, 0), timelist))
    ELSE timelist

\* Lines 97-98: the loop over gd2.datanames(), run on the dictionary object d
\* that gd2.data points to.  It stops at the first key whose array cannot be
\* indexed; the keys before it stay replaced.
RECURSIVE sliceloop(_, _, _)
sliceloop(d, keys, ll) ==
    IF keys = <<>> THEN [raised |-> FALSE, d |-> d]
    ELSE LET idata == Head(keys)
         IN  IF ~InRange(ll, Cols(d[idata]))
             THEN [raised |-> TRUE, d |-> d]
             ELSE sliceloop([d EXCEPT ![idata] = TakeCols(d[idata], ll)], Tail(keys), ll)

\* copy(self) (line 94): a new instance whose attributes are the same
\* objects as self's; in particular gd2.data IS self.data.
copy(self) == self

\* The whole of timeslice on the heap (os, ds), called on instance s.
\* Result: the outcome, the new heap, and the index of the returned instance.
timeslice(os, ds, s, timelist, listtype) ==
    LET self == os[s]
    IN  IF listtype \notin ListTypes
        THEN [outcome |-> "UnboundLocalError", objs |-> os, dicts |-> ds, res |-> 0]
        ELSE
        LET ll  == loclist(self.times, timelist, listtype)
            gd2 == copy(self)
        IN  IF ~InRange(ll, Len(gd2.times))
            THEN [outcome |-> "IndexError", objs |-> os, dicts |-> ds, res |-> 0]
            ELSE
            LET gd2t == [gd2 EXCEPT !.times = TakeRows(gd2.times, ll)]
                d    == ds[gd2t.data]
                lp   == sliceloop(d, SetToSeq(DOMAIN d), ll)
                ds2  == [ds EXCEPT ![gd2t.data] = lp.d]
            IN  IF lp.raised
                THEN [outcome |-> "IndexError", objs |-> os, dicts |-> ds2, res |-> 0]
                ELSE [outcome |-> "ok", objs |-> Append(os, gd2t), dicts |-> ds2,
                      res |-> Len(os) + 1]

(***************************************************************************)
(* The CoordTransforms collaborator (import CoordTransforms as CT): a pair *)
(* of point-wise conversions between coordinate systems.  Its code is not  *)
(* part of GeoData.py; it is modelled as a pair of mutually inverse maps   *)
(* on the points of the model's grid {0,1}^3, applied row by row, defined  *)
(* on N x 3 arrays only.                                                   *)
(***************************************************************************)
IsNx3(a) == \A r \in 1..Len(a) : Len(a[r]) = 3

sphereical2Cartisian(a) ==
    [r \in 1..Len(a) |->
        <<a[r][1], (a[r][1] + a[r][2]) % 2, (a[r][2] + a[r][3]) % 2>>]

cartisian2Sphereical(a) ==
    [r \in 1..Len(a) |->
        LET az == (a[r][2] - a[r][1]) % 2
        IN  <<a[r][1], az, (a[r][3] - az) % 2>>]

(***************************************************************************)
(* GeoData.__changecoords__ and GeoData.interpolate.                       *)
(***************************************************************************)
\* A variant of __changecoords__ without the raise of line 173: any other
\* pair of systems is treated as no change of coordinates.
changecoords_noraise(self, newcoordname) ==
    IF self.coordnames = "Spherical" /\ newcoordname = "Cartesian" /\ IsNx3(self.dataloc)
    THEN [raised |-> FALSE, err |-> "", val |-> sphereical2Cartisian(self.dataloc)]
    ELSE IF self.coordnames = "Cartesian" /\ newcoordname = "Spherical"
            /\ IsNx3(self.dataloc)
    THEN [raised |-> FALSE, err |-> "", val |-> cartisian2Sphereical(self.dataloc)]
    ELSE [raised |-> FALSE, err |-> "", val |-> self.dataloc]

\* Lines 167-173.  raised: the ValueError of line 173 (or the collaborator
\* failing on an array that is not N x 3).
__changecoords__(self, newcoordname) ==
    IF self.coordnames = "Spherical" /\ newcoordname = "Cartesian"
    THEN IF IsNx3(self.dataloc)
         THEN [raised |-> FALSE, err |-> "", val |-> sphereical2Cartisian(self.dataloc)]
         ELSE [raised |-> TRUE, err |-> "IndexError", val |-> <<>>]
    ELSE IF self.coordnames = "Cartesian" /\ newcoordname = "Spherical"
    THEN IF IsNx3(self.dataloc)
         THEN [raised |-> FALSE, err |-> "", val |-> cartisian2Sphereical(self.dataloc)]
         ELSE [raised |-> TRUE, err |-> "IndexError", val |-> <<>>]
    ELSE IF self.coordnames = newcoordname
    THEN [raised |-> FALSE, err |-> "", val |-> self.dataloc]
    ELSE [raised |-> TRUE, err |-> "ValueError", val |-> <<>>]

curavalmethods == {"linear", "nearest", "cubic"}

\* np.all(a[:, k] == v) for a 0-based column k.
allcol(a, k, v) == \A r \in 1..Len(a) : equal(a[r][k + 1], v)

\* Lines 127-133: keepaxis[k] for k in range(len(firstel)).  Column k of
\* curcoords must exist (the caller checks this).
keepaxis(new_coords, curcoords) ==
    LET firstel    == new_coords[1]
        firstelold == curcoords[1]
    IN  [k \in 1..Len(firstel) |->
            ~(allcol(new_coords, k - 1, firstel[k])
              \/ allcol(curcoords, k - 1, firstelold[k]))]

\* row[keep] for a boolean mask keep.
RECURSIVE maskrow(_, _)
maskrow(row, keep) ==
    IF row = <<>> \/ keep = <<>> THEN <<>>
    ELSE (IF Head(keep) THEN <<Head(row)>> ELSE <<>>) \o maskrow(Tail(row), Tail(keep))

\* a[:, keep] (lines 136-137): the columns of a whose mask entry is true.
maskcols(a, keep) == [r \in 1..Len(a) |-> maskrow(a[r], keep)]

\* Squared Euclidean distance of two points of the same dimension.
RECURSIVE dist2(_, _)
dist2(p, q) ==
    IF p = <<>> THEN 0
    ELSE (Head(p) - Head(q)) * (Head(p) - Head(q)) + dist2(Tail(p), Tail(q))

\* spinterp.griddata(points, values, xi, method, fill_value) (line 148), for
\* a geometry the routine accepts.  nearest: the value of the closest sample
\* (the first one, among equally close ones).  linear and cubic: the sample's
\* value at a sample point, fill_value outside the convex hull of the
\* samples; the model's samples are corners of the unit cube and its query
\* points corners of it or points outside it, so no other case arises.
griddata(points, values, xi, method, fill_value) ==
    [r \in 1..Len(xi) |->
        IF method = "nearest"
        THEN LET i == CHOOSE i \in 1..Len(points) :
                        /\ \A j \in 1..Len(points) :
                              dist2(points[i], xi[r]) <= dist2(points[j], xi[r])
                        /\ \A j \in 1..(i - 1) :
                              dist2(points[j], xi[r]) > dist2(points[i], xi[r])
             IN  values[i]
        ELSE IF \E i \in 1..Len(points) : points[i] = xi[r]
             THEN values[CHOOSE i \in 1..Len(points) :
                            /\ points[i] = xi[r]
                            /\ \A j \in 1..(i - 1) : points[j] # xi[r]]
             ELSE fill_value]

\* Whether griddata may refuse the geometry of a call.  Nearest-neighbour
\* lookup in at least one dimension accepts every geometry; the
\* triangulation- and spline-based routines have preconditions on it (enough
\* points in general position, a supported dimension) that are not modelled:
\* they may accept or refuse.
griddata_may_raise(points, method) ==
    IF method = "nearest" /\ Len(points[1]) >= 1 THEN {FALSE} ELSE BOOLEAN

\* Lines 143-150: the loop over self.data.keys(), run on the dictionary d
\* that self.data points to.  refuse: griddata refuses the geometry.  The loop
\* stops at the first key for which a column is missing (line 146) or
\* griddata raises (line 148: it refuses the geometry, or the number of
\* values differs from the number of points); the keys before it stay
\* replaced.
RECURSIVE interploop(_, _, _, _, _, _, _, _)
interploop(d, keys, curcoords, new_coords, Nt, method, fill_value, refuse) ==
    IF keys = <<>> THEN [raised |-> FALSE, d |-> d]
    ELSE LET iparam == Head(keys)
             arr    == d[iparam]
             NNlocs == Len(new_coords)
         IN  IF Nt > 0 /\ (Nt > Cols(arr)
                           \/ refuse
                           \/ Rows(arr) # Len(curcoords))
             THEN [raised |-> TRUE, d |-> d]
             ELSE LET New_param ==
                        [r \in 1..NNlocs |-> [t \in 1..Nt |->
                            griddata(curcoords, Column(arr, t - 1), new_coords,
                                     method, fill_value)[r]]]
                  IN  interploop([d EXCEPT ![iparam] = New_param], Tail(keys),
                                 curcoords, new_coords, Nt, method, fill_value, refuse)

\* The whole of interpolate on the heap (os, ds), called on instance s.
interpolate(os, ds, s, new_coords, newcoordname, method, fill_value, refuse) ==
    LET self == os[s]
        fail(e) == [outcome |-> e, objs |-> os, dicts |-> ds]
    IN  IF method \notin curavalmethods THEN fail("ValueError")
        ELSE
        LET Nt == Len(self.times)
            cc == __changecoords__(self, newcoordname)
        IN  IF cc.raised THEN fail(cc.err)
            ELSE IF Cols(cc.val) < Cols(new_coords) THEN fail("IndexError")
            ELSE
            LET keep       == keepaxis(new_coords, cc.val)
                curcoords  == maskcols(cc.val, keep)
                new_coords2 == maskcols(new_coords, keep)
                d          == ds[self.data]
                lp         == interploop(d, SetToSeq(DOMAIN d), curcoords, new_coords2,
                                         Nt, method, fill_value, refuse)
                ds2        == [ds EXCEPT ![self.data] = lp.d]
            IN  IF lp.raised
                THEN [outcome |-> "Error", objs |-> os, dicts |-> ds2]
                ELSE [outcome |-> "ok",
                      objs |-> [os EXCEPT ![s] = [self EXCEPT !.dataloc = new_coords2,
                                                              !.coordnames = newcoordname]],
                      dicts |-> ds2]

(***************************************************************************)
(* The heap of containers: initial state, inputs and calls.                *)
(***************************************************************************)
\* The time axis of the initial container: entry i (0-based i - 1) holds
\* the bin starting at time 10 * i and ending at 10 * i + 5.
InitTimes == [i \in 1..NumTimes |-> <<10 * i, 10 * i + 5>>]

InitDataloc == << <<0, 0, 0>>, <<1, 1, 1>> >>

\* One array per data name, of shape (rows of dataloc, entries of times),
\* all entries different.
InitData ==
    [k \in {"Ne", "Ti"} |->
        [r \in 1..Len(InitDataloc) |-> [t \in 1..NumTimes |->
            (IF k = "Ne" THEN 100 ELSE 200) + 10 * r + t]]]

InitCoordnames == {"Spherical", "Cartesian"}

\* Selectors handed to timeslice: lists of 0-based indices, and lists of
\* times.
IndexLists == {<<>>, <<1>>, <<0, 2, 4>>, <<2, 0>>, <<1, 1>>, <<0, 5>>}

StampLists == {<<20>>, <<30, 10>>, <<20, 20>>, <<10, 99>>}

ListTypeInputs == {"None", "Array", "Time", "Index"}

\* Arrays handed to interpolate as new_coords (N x 3).
NewCoords ==
    { << <<0, 0, 0>>, <<1, 1, 1>> >>,
      << <<0, 0, 0>>, <<1, 0, 1>> >>,
      << <<1, 1, 1>> >>,
      << <<0, 0, 0>>, <<1, 1, 1>>, <<2, 1, 0>> >> }

CoordnameInputs == {"Spherical", "Cartesian", "Polar"}

MethodInputs == {"linear", "nearest", "cubic", "spline"}

NoCall ==
    [op |-> "none", self |-> 0, res |-> 0, outcome |-> "", timelist |-> <<>>,
     listtype |-> "", new_coords |-> <<>>, newcoordname |-> "", method |-> "",
     pre_objs |-> <<>>, pre_dicts |-> <<>>, calls |-> 0]

HeapInit ==
    /\ \E cn \in InitCoordnames :
          objs = << [data |-> 1, coordnames |-> cn, dataloc |-> InitDataloc,
                     sensorloc |-> << <<65, 147, 0>> >>, times |-> InitTimes] >>
    /\ dicts = << InitData >>
    /\ last = NoCall

\* gd2 = objs[s].timeslice(timelist, listtype)
Timeslice(s, timelist, listtype) ==
    /\ last.calls < MaxCalls
    /\ LET r == timeslice(objs, dicts, s, timelist, listtype)
       IN  /\ objs' = r.objs
           /\ dicts' = r.dicts
           /\ last' = [NoCall EXCEPT !.op = "timeslice", !.self = s, !.res = r.res,
                          !.outcome = r.outcome, !.timelist = timelist,
                          !.listtype = listtype, !.pre_objs = objs,
                          !.pre_dicts = dicts, !.calls = last.calls + 1]

\* objs[s].interpolate(new_coords, newcoordname, method)
Interpolate(s, new_coords, newcoordname, method, refuse) ==
    /\ last.calls < MaxCalls
    /\ LET r == interpolate(objs, dicts, s, new_coords, newcoordname, method, NaN, refuse)
       IN  /\ objs' = r.objs
           /\ dicts' = r.dicts
           /\ last' = [NoCall EXCEPT !.op = "interpolate", !.self = s,
                          !.outcome = r.outcome, !.new_coords = new_coords,
                          !.newcoordname = newcoordname, !.method = method,
                          !.pre_objs = objs, !.pre_dicts = dicts,
                          !.calls = last.calls + 1]

\* The geometries griddata may refuse in a call of interpolate on objs[s]:
\* decided by the points it is handed, the same in every iteration.
RefuseChoices(s, new_coords, newcoordname, method) ==
    LET cc == __changecoords__(objs[s], newcoordname)
    IN  IF cc.raised \/ method \notin curavalmethods
           \/ Cols(cc.val) < Cols(new_coords)
        THEN {FALSE}
        ELSE griddata_may_raise(maskcols(cc.val, keepaxis(new_coords, cc.val)), method)

OtherUnchanged == UNCHANGED <<eqvars, ctorvars, h5vars>>

TimesliceCall ==
    /\ \E s \in 1..Len(objs), tl \in IndexLists \cup StampLists, lt \in ListTypeInputs :
          Timeslice(s, tl, lt)
    /\ OtherUnchanged

InterpolateCall ==
    /\ \E s \in 1..Len(objs), nc \in NewCoords, cn \in CoordnameInputs,
          m \in MethodInputs :
          \E refuse \in RefuseChoices(s, nc, cn, m) :
             Interpolate(s, nc, cn, m, refuse)
    /\ OtherUnchanged

Init ==
    /\ HeapInit
    /\ eqA = 0 /\ eqB = 0 /\ eqOut = 0
    /\ ctorIn = 0 /\ ctorOut = 0
    /\ h5src = 0 /\ h5file = 0 /\ h5open = 0 /\ h5last = 0

Next == TimesliceCall \/ InterpolateCall

Spec == Init /\ [][Next]_vars

(***************************************************************************)
(* Python values with their types, for the parts of the program that test  *)
(* types: type is the Python 2 type name, and the contents are held in a   *)
(* field of their own per type: items (a dict, as a function from its      *)
(* keys), text (a str), arr (a numeric ndarray, 2-D: a sequence of rows),  *)
(* chars (an ndarray of fixed-width character codes, as the string it      *)
(* spells), elems (a list), num (a float).  kind is an ndarray's dtype     *)
(* kind.                                                                   *)
(***************************************************************************)
PyDict(m)      == [type |-> "dict", items |-> m]
PyStr(t)       == [type |-> "str", text |-> t]
PyArray(a)     == [type |-> "ndarray", kind |-> "f", arr |-> a]
PyCharArray(t) == [type |-> "ndarray", kind |-> "S", chars |-> t]
PyList(a)      == [type |-> "list", elems |-> a]
PyFloat(x)     == [type |-> "float", num |-> x]
PyNone         == [type |-> "NoneType"]

\* A GeoData instance as a value: its five attributes.
Instance(data, coordnames, dataloc, sensorloc, times) ==
    [data |-> data, coordnames |-> coordnames, dataloc |-> dataloc,
     sensorloc |-> sensorloc, times |-> times]

(***************************************************************************)
(* GeoData.__eq__ and __ne__.                                              *)
(***************************************************************************)
\* All entries of a 2-D array, row after row.
RECURSIVE ravel(_)
ravel(a) == IF a = <<>> THEN <<>> ELSE Head(a) \o ravel(Tail(a))

\* np.ma.array(x, mask=np.isnan(x)) on the entries of x.
ma_array(x) ==
    LET flat == ravel(x)
    IN  [data |-> flat, mask |-> [i \in 1..Len(flat) |-> isnan(flat[i])]]

\* A variant of allequal that ignores the masks.
allequal_unmasked(a, b) == \A i \in 1..Len(a.data) : equal(a.data[i], b.data[i])

\* np.ma.allequal(a, b) with its default fill_value=True: the masks are
\* or-ed, the data compared with equal, the masked positions of the result
\* filled with True, and all() taken.  (a and b of one shape.)
allequal(a, b) ==
    LET m      == [i \in 1..Len(a.data) |-> a.mask[i] \/ b.mask[i]]
        d      == [i \in 1..Len(a.data) |-> equal(a.data[i], b.data[i])]
        filled == [i \in 1..Len(a.data) |-> IF m[i] THEN TRUE ELSE d[i]]
    IN  \A i \in 1..Len(a.data) : filled[i]

\* Lines 187-191: the loop over datakeys; TRUE when no key returns False.
datakeys_equal(self, self2) ==
    \A ikey \in DOMAIN self.data.items :
        allequal(ma_array(self.data.items[ikey].arr), ma_array(self2.data.items[ikey].arr))

\* Lines 183-212.
__eq__(self, self2) ==
    IF DOMAIN self.data.items # DOMAIN self2.data.items THEN FALSE
    ELSE IF ~datakeys_equal(self, self2) THEN FALSE
    ELSE IF self.coordnames.text # self2.coordnames.text THEN FALSE
    ELSE IF ~allequal(ma_array(self.dataloc.arr), ma_array(self2.dataloc.arr)) THEN FALSE
    ELSE IF ~allequal(ma_array(self.sensorloc.arr), ma_array(self2.sensorloc.arr)) THEN FALSE
    ELSE IF ~allequal(ma_array(self.times.arr), ma_array(self2.times.arr)) THEN FALSE
    ELSE TRUE

\* Line 217.
__ne__(self, self2) == ~__eq__(self, self2)

\* The containers compared: every combination of these attribute values.
\* All arrays of one attribute have one shape.
EqDatas ==
    { PyDict([k \in {"Ne"} |-> PyArray(<< <<5, 6>> >>)]),
      PyDict([k \in {"Ne"} |-> PyArray(<< <<5, NaN>> >>)]),
      PyDict([k \in {"Ne"} |-> PyArray(<< <<5, 7>> >>)]),
      PyDict([k \in {"Ne", "Ti"} |-> PyArray(<< <<5, 6>> >>)]),
      PyDict([k \in {"Ne", "Ti"} |->
                 IF k = "Ne" THEN PyArray(<< <<5, 6>> >>) ELSE PyArray(<< <<NaN, 6>> >>)]),
      PyDict(<<>>) }

EqCoordnames == {PyStr("Spherical"), PyStr("Cartesian")}
EqDatalocs   == {PyArray(<< <<0, 0, 0>> >>), PyArray(<< <<0, NaN, 0>> >>),
                 PyArray(<< <<0, 1, 0>> >>)}
EqSensorlocs == {PyArray(<< <<65, 147, 0>> >>), PyArray(<< <<65, 147, NaN>> >>)}
EqTimes      == {PyArray(<< <<1, 2>> >>), PyArray(<< <<1, 3>> >>),
                 PyArray(<< <<1, NaN>> >>), PyArray(<< <<1, 999>> >>)}

EqContainers ==
    { Instance(d, c, l, sl, t) :
        d \in EqDatas, c \in EqCoordnames, l \in EqDatalocs, sl \in EqSensorlocs,
        t \in EqTimes }

NoEqOut == [done |-> FALSE, eq |-> FALSE, ne |-> FALSE]

HeapIdle == objs = <<>> /\ dicts = <<>> /\ last = NoCall

EqInit ==
    /\ eqA \in EqContainers
    /\ eqB \in EqContainers
    /\ eqOut = NoEqOut
    /\ HeapIdle
    /\ ctorIn = 0 /\ ctorOut = 0
    /\ h5src = 0 /\ h5file = 0 /\ h5open = 0 /\ h5last = 0

\* eqA == eqB and eqA != eqB
Compare ==
    /\ ~eqOut.done
    /\ eqOut' = [done |-> TRUE, eq |-> __eq__(eqA, eqB), ne |-> __ne__(eqA, eqB)]
    /\ UNCHANGED <<eqA, eqB, heapvars, ctorvars, h5vars>>

EqNext == Compare

SpecEq == EqInit /\ [][EqNext]_vars

\* Two arrays of one shape agree wherever neither holds NaN; the six
\* conditions of equality on eqA and eqB.
C3_MaskedSame(x, y) ==
    \A r \in 1..Len(x) : \A c \in 1..Len(x[r]) :
        x[r][c] = NaN \/ y[r][c] = NaN \/ x[r][c] = y[r][c]

C3_SixConditions ==
    /\ DOMAIN eqA.data.items = DOMAIN eqB.data.items
    /\ \A k \in DOMAIN eqA.data.items :
          C3_MaskedSame(eqA.data.items[k].arr, eqB.data.items[k].arr)
    /\ eqA.coordnames.text = eqB.coordnames.text
    /\ C3_MaskedSame(eqA.dataloc.arr, eqB.dataloc.arr)
    /\ C3_MaskedSame(eqA.sensorloc.arr, eqB.sensorloc.arr)
    /\ C3_MaskedSame(eqA.times.arr, eqB.times.arr)

\* C3: __eq__ is True exactly when the data dictionaries have the same key
\* set, for every key the two arrays agree at every position where neither
\* is NaN, the coordnames are identical, and dataloc, sensorloc and times
\* agree in the same way; __ne__ is its negation.
C3_EqIsSixConditions ==
    eqOut.done =>
        /\ eqOut.eq = C3_SixConditions
        /\ eqOut.ne = ~eqOut.eq
        /\ (eqA.times.arr = << <<1, 2>> >> /\ eqB.times.arr = << <<1, 3>> >>
               => ~eqOut.eq)

\* C3 witness: two containers that differ only in times, [[1, NaN]] against
\* [[1, 999]], compare equal.
C3_Witness ==
    /\ eqOut.done
    /\ eqA.times.arr = << <<1, NaN>> >>
    /\ eqB.times.arr = << <<1, 999>> >>
    /\ eqA.data = eqB.data /\ eqA.coordnames = eqB.coordnames
    /\ eqA.dataloc = eqB.dataloc /\ eqA.sensorloc = eqB.sensorloc
    /\ eqOut.eq /\ ~eqOut.ne

(***************************************************************************)
(* is_numeric and GeoData.__init__.                                        *)
(***************************************************************************)
\* Which of the arithmetic attributes hasattr finds on a Python 2 object.
\* An ndarray has all of them whatever its dtype; so have the numbers; str
\* and list have __add__ and __mul__ alone; dict and None have none.
hasattr(obj, attr) ==
    CASE obj.type \in {"ndarray", "float"} -> TRUE
      [] obj.type \in {"str", "list"}      -> attr \in {"__add__", "__mul__"}
      [] OTHER                             -> FALSE

\* Lines 221-223.
is_numeric(obj) ==
    LET attrs == {"__add__", "__sub__", "__mul__", "__div__", "__pow__"}
    IN  \A attr \in attrs : hasattr(obj, attr)

\* Lines 34-43, on the tuple t the reader returned: the unpacking into five
\* attributes, then the assertions in order.  On failure no instance exists.
__init__(t) ==
    LET raise(e, msg) == [outcome |-> e, msg |-> msg, inst |-> PyNone]
    IN  IF Len(t) # 5 THEN raise("ValueError", "unpack")
        ELSE
        LET self == Instance(t[1], t[2], t[3], t[4], t[5])
        IN  IF self.data.type # "dict"
                THEN raise("AssertionError", "data needs to be a dictionary")
            ELSE IF self.coordnames.type # "str"
                THEN raise("AssertionError", "coordnames needs to be a string")
            ELSE IF self.dataloc.type # "ndarray"
                THEN raise("AssertionError", "dataloc needs to be a numpy array")
            ELSE IF ~is_numeric(self.dataloc)
                THEN raise("AssertionError", "dataloc needs to be a numeric array")
            ELSE IF self.sensorloc.type # "ndarray"
                THEN raise("AssertionError", "sensorloc needs to be a numpy array")
            ELSE IF ~is_numeric(self.sensorloc)
                THEN raise("AssertionError", "sensorloc needs to be a numeric array")
            ELSE IF self.times.type # "ndarray"
                THEN raise("AssertionError", "times needs to be a numpy array")
            ELSE IF ~is_numeric(self.times)
                THEN raise("AssertionError", "times needs to be a numeric array")
            ELSE [outcome |-> "ok", msg |-> "", inst |-> self]

\* Line 47.
datanames(self) == DOMAIN self.data.items

\* What a reader may return for one field.
ReaderValues ==
    { PyDict([k \in {"Ne", "Ti"} |-> PyArray(<< <<5, 6>> >>)]),
      PyStr("Spherical"),
      PyArray(<< <<1, 2>> >>),
      PyCharArray("ab"),
      PyList(<<1, 2>>),
      PyFloat(1),
      PyNone }

\* What a reader may return: tuples of four, five and six fields.
ReaderTuples ==
    UNION { [1..n -> ReaderValues] : n \in {5} }
    \cup { [i \in 1..n |-> IF i = 1 THEN PyDict(<<>>)
                           ELSE IF i = 2 THEN PyStr("Cartesian")
                           ELSE PyArray(<< <<1, 2>> >>)] : n \in {4, 6} }

NoCtorOut == [done |-> FALSE, outcome |-> "", msg |-> "", inst |-> PyNone]

CtorInit ==
    /\ ctorIn \in ReaderTuples
    /\ ctorOut = NoCtorOut
    /\ HeapIdle
    /\ eqA = 0 /\ eqB = 0 /\ eqOut = 0
    /\ h5src = 0 /\ h5file = 0 /\ h5open = 0 /\ h5last = 0

\* GeoData(readmethod, inputs), readmethod(*inputs) returning ctorIn.
Construct ==
    /\ ~ctorOut.done
    /\ LET r == __init__(ctorIn)
       IN  ctorOut' = [done |-> TRUE, outcome |-> r.outcome, msg |-> r.msg,
                       inst |-> r.inst]
    /\ UNCHANGED <<ctorIn, heapvars, eqvars, h5vars>>

CtorNext == Construct

SpecCtor == CtorInit /\ [][CtorNext]_vars

\* A reader's tuple is well typed: five fields, a dictionary, a string and
\* three numeric arrays.
C5_NumericArray(v) == v.type = "ndarray" /\ v.kind # "S"

C5_WellTyped(t) ==
    /\ Len(t) = 5
    /\ t[1].type = "dict"
    /\ t[2].type = "str"
    /\ C5_NumericArray(t[3]) /\ C5_NumericArray(t[4]) /\ C5_NumericArray(t[5])

\* C5: construction succeeds, with datanames() the key set of the reader's
\* data, when the reader returns five fields: a dictionary, a string and
\* three numeric arrays; it fails, producing no instance, when the tuple
\* has not five fields, data is no dictionary, coordnames no string, or
\* dataloc, sensorloc or times is not a numeric array (an array of strings,
\* for one).
C5_ConstructionValidates ==
    ctorOut.done =>
        IF C5_WellTyped(ctorIn)
        THEN /\ ctorOut.outcome = "ok"
             /\ datanames(ctorOut.inst) = DOMAIN ctorIn[1].items
        ELSE /\ ctorOut.outcome # "ok"
             /\ ctorOut.inst = PyNone

(***************************************************************************)
(* The h5 file.  A file is a function from the pathnames of its groups to  *)
(* the arrays directly under each group (array name -> contents).  A       *)
(* pathname is the sequence of its pieces, separators included: "/" is     *)
(* <<"/">>, "/data" is <<"/", "data">>, "/data/sub" is                     *)
(* <<"/", "data", "/", "sub">>.  An array node holds the Python value      *)
(* written; array.read() returns it in the flavor it was written with.     *)
(***************************************************************************)
sep == "/"
RootPath == <<sep>>

VARNAMES == <<"data", "coordnames", "dataloc", "sensorloc", "times">>

\* Index just after the last separator of a pathname (rfind('/') + 1).
lastsep(path) ==
    IF \E i \in 1..Len(path) : path[i] = sep
    THEN CHOOSE i \in 1..Len(path) :
            path[i] = sep /\ \A j \in (i + 1)..Len(path) : path[j] # sep
    ELSE 0

\* head.rstrip('/')
RECURSIVE rstrip(_)
rstrip(path) ==
    IF path # <<>> /\ path[Len(path)] = sep
    THEN rstrip(SubSeq(path, 1, Len(path) - 1))
    ELSE path

\* posixpath.split(path): (head, tail), tail the piece after the last
\* separator ("" when there is none), head what precedes it, its trailing
\* separators stripped unless it consists of separators only.
posixpath_split(path) ==
    LET i    == lastsep(path)
        head == SubSeq(path, 1, i)
        tail == IF i < Len(path) THEN path[Len(path)] ELSE ""
    IN  [head |-> IF head # <<>> /\ (\E k \in 1..Len(head) : head[k] # sep)
                  THEN rstrip(head) ELSE head,
         tail |-> tail]

\* Lines 313-321: the components of a pathname, first to last.
RECURSIVE pathparts_loop(_, _)
pathparts_loop(path, components) ==
    LET sp == posixpath_split(path)
    IN  IF sp.tail = "" THEN components
        ELSE pathparts_loop(sp.head, <<sp.tail>> \o components)

pathparts(path) == pathparts_loop(path, <<>>)

\* m with name bound to v.
Put(m, name, v) == [x \in DOMAIN m \cup {name} |-> IF x = name THEN v ELSE m[x]]

\* A file just opened with mode "w": the root group, empty.
EmptyFile == [g \in {RootPath} |-> <<>>]

(***************************************************************************)
(* GeoData.write_h5.                                                       *)
(***************************************************************************)
\* Lines 60-68: the calls on h5file the loop makes for the instance self,
\* in order.  (varnames is taken in the order of VARNAMES; the order of
\* self.__dict__.keys() decides only which nodes a failed write leaves.)
RECURSIVE write_calls(_, _)
write_calls(self, varnames) ==
    IF varnames = <<>> THEN <<>>
    ELSE LET cvar == Head(varnames)
             v    == self[cvar]
             here ==
                IF v.type = "dict"
                THEN LET dictkeys == SetToSeq(DOMAIN v.items)
                     IN  << [call |-> "create_group", where |-> RootPath, name |-> cvar,
                             obj |-> PyNone] >>
                         \o [i \in 1..Len(dictkeys) |->
                               [call |-> "createArray", where |-> <<sep, cvar>>,
                                name |-> dictkeys[i], obj |-> v.items[dictkeys[i]]]]
                ELSE << [call |-> "createArray", where |-> RootPath, name |-> cvar,
                         obj |-> v] >>
         IN  here \o write_calls(self, Tail(varnames))

\* The file after the first n of the calls.
RECURSIVE apply_calls(_, _, _)
apply_calls(file, calls, n) ==
    IF n = 0 \/ calls = <<>> THEN file
    ELSE LET c == Head(calls)
             f2 == IF c.call = "create_group"
                   THEN Put(file, c.where \o <<c.name>>, <<>>)
                   ELSE [file EXCEPT ![c.where] = Put(file[c.where], c.name, c.obj)]
         IN  apply_calls(f2, Tail(calls), n - 1)

\* Lines 53-76, with the call numbered failat raising (none when failat
\* exceeds their number).  open counts the handles opened and not closed.
write_h5(self, failat) ==
    LET calls  == write_calls(self, VARNAMES)
        opened == 1
    IN  IF failat > Len(calls)
        THEN \* line 69
             [outcome |-> "ok", file |-> apply_calls(EmptyFile, calls, Len(calls)),
              open |-> opened - 1]
        ELSE \* lines 71-76: close, print, sys.exit()
             [outcome |-> "SystemExit", file |-> apply_calls(EmptyFile, calls, failat - 1),
              open |-> opened - 1]

(***************************************************************************)
(* read_h5_main and GeoData.read_h5.                                       *)
(***************************************************************************)
\* The sequences that enumerate a finite set once each: the orders in which
\* a Python 2 dict may list its keys.
Orders(S) ==
    { f \in [1..Cardinality(S) -> S] : \A i, j \in 1..Cardinality(S) : f[i] = f[j] => i = j }

\* Line 238: the components of those paths that have any, in the order of
\* the paths.
RECURSIVE nonroot(_)
nonroot(paths) ==
    IF paths = <<>> THEN <<>>
    ELSE (IF Len(pathparts(Head(paths))) > 0 THEN <<pathparts(Head(paths))>> ELSE <<>>)
         \o nonroot(Tail(paths))

\* Lines 256-260: a character array becomes a str.
coerce(curdata) ==
    IF curdata.type = "ndarray" /\ curdata.kind = "S"
    THEN PyStr(curdata.chars) ELSE curdata

\* Lines 243-261 for one ivar: what it appends to outlist.  keys is
\* output.keys(), outarr the list of line 238.
lookup(output, keys, outarr, ivar) ==
    IF \E n \in 1..Len(outarr) : outarr[n][1] = ivar
    THEN LET npath == CHOOSE n \in 1..Len(outarr) :
                         outarr[n][1] = ivar /\ \A k \in 1..(n - 1) : outarr[k][1] # ivar
         IN  << PyDict(output[keys[npath]]) >>
    ELSE IF ivar \in DOMAIN output[RootPath]
         THEN << coerce(output[RootPath][ivar]) >>
         ELSE <<>>

RECURSIVE collect(_, _, _, _)
collect(output, keys, outarr, names) ==
    IF names = <<>> THEN <<>>
    ELSE lookup(output, keys, outarr, Head(names))
         \o collect(output, keys, outarr, Tail(names))

\* Lines 228-263 on the file, keys being the order in which output lists its
\* keys; fails: walking the groups or reading an array raises.
read_h5_main(file, keys, fails) ==
    LET opened == 1
    IN  IF fails
        THEN \* the exception leaves lines 231-234; line 235 is not reached
             [outcome |-> "IOError", tuple |-> <<>>, open |-> opened]
        ELSE LET output == file
                 outarr == nonroot(keys)
             IN  [outcome |-> "ok",
                  tuple |-> collect(output, keys, outarr, VARNAMES),
                  open |-> opened - 1]

\* Line 178: GeoData(read_h5_main, [filename]).
read_h5(file, keys, fails) ==
    LET r == read_h5_main(file, keys, fails)
    IN  IF r.outcome # "ok"
        THEN [outcome |-> r.outcome, tuple |-> r.tuple, inst |-> PyNone, open |-> r.open]
        ELSE LET c == __init__(r.tuple)
             IN  [outcome |-> c.outcome, tuple |-> r.tuple, inst |-> c.inst,
                  open |-> r.open]

(***************************************************************************)
(* Writing and reading files: initial state, inputs and calls.             *)
(***************************************************************************)
\* The containers written: the five canonical attributes of a valid
\* instance.
H5Containers ==
    { Instance(PyDict(d), PyStr("Spherical"), PyArray(InitDataloc),
               PyArray(<< <<65, 147, 0>> >>), PyArray(<< <<10, 15>>, <<20, 25>> >>)) :
        d \in { [k \in {"Ne", "Ti"} |->
                   PyArray(<< <<111, 112>>, <<(IF k = "Ne" THEN 121 ELSE NaN), 122>> >>)],
                [k \in {"Ne"} |-> PyArray(<< <<111, NaN>>, <<121, 122>> >>)],
                <<>> } }

\* Files found on disk that write_h5 did not write: an empty one; one
\* written by other software, with coordnames a character array, data under
\* a group and no times; one with data and dataloc under groups, a group
\* nested in data, and no times.
FoundFiles ==
    { EmptyFile,
      [g \in {RootPath, <<sep, "data">>} |->
          IF g = RootPath
          THEN [n \in {"coordnames", "dataloc", "sensorloc"} |->
                   IF n = "coordnames" THEN PyCharArray("Cartesian")
                   ELSE PyArray(<< <<1, 2, 3>> >>)]
          ELSE [n \in {"Ne"} |-> PyArray(<< <<7>> >>)]],
      [g \in {RootPath, <<sep, "data">>, <<sep, "data", sep, "sub">>,
              <<sep, "dataloc">>} |->
          IF g = RootPath
          THEN [n \in {"coordnames", "sensorloc"} |->
                   IF n = "coordnames" THEN PyStr("Cartesian")
                   ELSE PyArray(<< <<1, 2, 3>> >>)]
          ELSE IF g = <<sep, "data">> THEN [n \in {"Ne"} |-> PyArray(<< <<1>> >>)]
          ELSE IF g = <<sep, "dataloc">> THEN [n \in {"x"} |-> PyArray(<< <<2>> >>)]
          ELSE [n \in {"s"} |-> PyArray(<< <<3>> >>)]] }

NoH5Call ==
    [op |-> "none", outcome |-> "", keys |-> <<>>, tuple |-> <<>>, inst |-> PyNone,
     wrote |-> FALSE, exited |-> FALSE, calls |-> 0]

H5Init ==
    /\ h5src \in H5Containers
    /\ h5file \in FoundFiles
    /\ h5open = 0
    /\ h5last = NoH5Call
    /\ HeapIdle
    /\ eqA = 0 /\ eqB = 0 /\ eqOut = 0
    /\ ctorIn = 0 /\ ctorOut = 0

H5Ready == ~h5last.exited /\ h5last.calls < MaxH5Calls

H5OtherUnchanged == UNCHANGED <<h5src, heapvars, eqvars, ctorvars>>

\* h5src.write_h5(filename)
WriteH5 ==
    /\ H5Ready
    /\ \E failat \in 1..(Len(write_calls(h5src, VARNAMES)) + 1) :
          LET r == write_h5(h5src, failat)
          IN  /\ h5file' = r.file
              /\ h5open' = h5open + r.open
              /\ h5last' = [NoH5Call EXCEPT !.op = "write_h5", !.outcome = r.outcome,
                               !.wrote = (r.outcome = "ok"),
                               !.exited = (r.outcome = "SystemExit"),
                               !.calls = h5last.calls + 1]
    /\ H5OtherUnchanged

\* read_h5_main(filename)
ReadH5Main ==
    /\ H5Ready
    /\ \E keys \in Orders(DOMAIN h5file), fails \in BOOLEAN :
          LET r == read_h5_main(h5file, keys, fails)
          IN  /\ h5open' = h5open + r.open
              /\ h5last' = [NoH5Call EXCEPT !.op = "read_h5_main", !.outcome = r.outcome,
                               !.keys = keys, !.tuple = r.tuple,
                               !.wrote = h5last.wrote, !.calls = h5last.calls + 1]
    /\ UNCHANGED h5file
    /\ H5OtherUnchanged

\* GeoData.read_h5(filename)
ReadH5 ==
    /\ H5Ready
    /\ \E keys \in Orders(DOMAIN h5file), fails \in BOOLEAN :
          LET r == read_h5(h5file, keys, fails)
          IN  /\ h5open' = h5open + r.open
              /\ h5last' = [NoH5Call EXCEPT !.op = "read_h5", !.outcome = r.outcome,
                               !.keys = keys, !.tuple = r.tuple, !.inst = r.inst,
                               !.wrote = h5last.wrote, !.calls = h5last.calls + 1]
    /\ UNCHANGED h5file
    /\ H5OtherUnchanged

H5Next == WriteH5 \/ ReadH5Main \/ ReadH5

SpecH5 == H5Init /\ [][H5Next]_vars

(***************************************************************************)
(* Claims about write_h5, read_h5_main and read_h5, checked under SpecH5.  *)
(***************************************************************************)
\* C1: round trip: a container built by read_h5 from the file write_h5
\* wrote for h5src is equal to h5src under __eq__, whatever the order in
\* which the groups of the file are enumerated.
C1_RoundTrip ==
    (h5last.op = "read_h5" /\ h5last.wrote /\ h5last.outcome # "IOError") =>
        /\ h5last.outcome = "ok"
        /\ __eq__(h5last.inst, h5src)

\* C6: no file handle is leaked: whenever write_h5 or read_h5_main has
\* returned, raised or terminated the process, every handle it opened is
\* closed.
C6_NoHandleLeak == h5open = 0

\* The tuple expected of a file: per canonical name, the group's mapping,
\* else the root array's contents (a character array as a str), else nothing.
RECURSIVE C9_Expected(_, _)
C9_Expected(file, names) ==
    IF names = <<>> THEN <<>>
    ELSE LET ivar == Head(names)
             here == IF <<sep, ivar>> \in DOMAIN file
                     THEN << PyDict(file[<<sep, ivar>>]) >>
                     ELSE IF ivar \in DOMAIN file[RootPath]
                     THEN LET c == file[RootPath][ivar]
                          IN  << IF c.type = "ndarray" /\ c.kind = "S"
                                 THEN PyStr(c.chars) ELSE c >>
                     ELSE <<>>
         IN  here \o C9_Expected(file, Tail(names))

\* C9: per-field lookup of read_h5_main: for each canonical name in the
\* fixed order, the mapping under the top-level group of that name when
\* there is one, else the contents of the root-level array of that name
\* when there is one, else nothing; in whatever order the groups are
\* enumerated.
C9_PerFieldLookup ==
    (h5last.op \in {"read_h5_main", "read_h5"} /\ h5last.outcome # "IOError") =>
        h5last.tuple = C9_Expected(h5file, VARNAMES)

(***************************************************************************)
(* Claims about timeslice and interpolate, checked under Spec.             *)
(***************************************************************************)
SliceOk == last.op = "timeslice" /\ last.outcome = "ok"
InterpOk == last.op = "interpolate" /\ last.outcome = "ok"

\* The receiver of the last call and its data dictionary, before the call.
PreSelf == last.pre_objs[last.self]
PreData == last.pre_dicts[PreSelf.data]

\* C2: timeslice does not mutate the source: after a successful call the
\* source's times and its data dictionary (key set and every array) are what
\* they were before the call, and the returned container is another object
\* whose data is not the source's dictionary object.
C2_TimesliceLeavesSource ==
    SliceOk =>
        /\ objs[last.self].times = PreSelf.times
        /\ dicts[objs[last.self].data] = PreData
        /\ last.res # last.self
        /\ objs[last.res].data # objs[last.self].data

\* The last call was an interpolate with an unsupported method or an
\* unsupported pair of coordinate systems.
C4_PairSupported(old, new) ==
    \/ old = "Spherical" /\ new = "Cartesian"
    \/ old = "Cartesian" /\ new = "Spherical"
    \/ old = new

C4_InvalidCall ==
    /\ last.op = "interpolate"
    /\ \/ last.method \notin {"linear", "nearest", "cubic"}
       \/ ~C4_PairSupported(PreSelf.coordnames, last.newcoordname)

\* C4: a call of interpolate with a method other than linear, nearest, cubic,
\* or with a pair of coordinate systems that is neither Spherical/Cartesian
\* (either way) nor identical, raises ValueError and leaves every attribute
\* of every container, and every data dictionary, as before the call.
C4_InvalidArgumentLeavesUnmodified ==
    C4_InvalidCall =>
        /\ last.outcome = "ValueError"
        /\ objs = last.pre_objs
        /\ dicts = last.pre_dicts

\* C4 witness: an interpolation into the unknown system Polar with a valid
\* method, on a container an earlier call has already worked on.
C4_Witness ==
    /\ C4_InvalidCall
    /\ last.method = "linear"
    /\ last.newcoordname = "Polar"
    /\ last.calls = 2
    /\ last.outcome = "ValueError"

\* The indices the selector of the last timeslice stands for.
C7_Indices ==
    IF last.listtype = "Time"
    THEN SortedSeq({i \in 0..(Len(PreSelf.times) - 1) :
                      \E j \in 1..Len(last.timelist) :
                         last.timelist[j] = PreSelf.times[i + 1][1]})
    ELSE last.timelist

\* C7: the container a successful timeslice returns has times equal to the
\* source's original times[indices] and every data array equal to the
\* source's original array restricted to the columns indices, with the same
\* key set and coordnames, dataloc, sensorloc unchanged; indices being the
\* selector itself for 'Array' or no listtype, and the positions i with
\* times[i,0] in the selector, increasing, for 'Time'.
C7_TimesliceResult ==
    SliceOk =>
        LET gd2 == objs[last.res]
            ix  == C7_Indices
        IN  /\ gd2.times = [i \in 1..Len(ix) |-> PreSelf.times[ix[i] + 1]]
            /\ DOMAIN dicts[gd2.data] = DOMAIN PreData
            /\ \A k \in DOMAIN PreData :
                  dicts[gd2.data][k] =
                     [r \in 1..Len(PreData[k]) |->
                        [i \in 1..Len(ix) |-> PreData[k][r][ix[i] + 1]]]
            /\ gd2.coordnames = PreSelf.coordnames
            /\ gd2.dataloc = PreSelf.dataloc
            /\ gd2.sensorloc = PreSelf.sensorloc

\* C7 witness: times[:,0] = [10,20,30,40,50] sliced by the times [30, 10]
\* keeps the indices 0 and 2, in array order.
C7_Witness ==
    /\ SliceOk
    /\ last.listtype = "Time"
    /\ last.timelist = <<30, 10>>
    /\ PreSelf.times = InitTimes
    /\ objs[last.res].times = << <<10, 15>>, <<30, 35>> >>

\* C8: after a successful interpolate the container's dataloc is the
\* new_coords passed in, with all of its columns, and coordnames is
\* newcoordname; sensorloc, times and the key set of data are unchanged.
C8_InterpolateSetsDataloc ==
    InterpOk =>
        /\ objs[last.self].dataloc = last.new_coords
        /\ objs[last.self].coordnames = last.newcoordname
        /\ objs[last.self].sensorloc = PreSelf.sensorloc
        /\ objs[last.self].times = PreSelf.times
        /\ DOMAIN dicts[objs[last.self].data] = DOMAIN PreData

\* C10: every container on the heap has every data array with as many
\* columns as its own times has entries and as many rows as its own dataloc.
C10_ShapeInvariant ==
    \A o \in 1..Len(objs) :
        \A k \in DOMAIN dicts[objs[o].data] :
            /\ Cols(dicts[objs[o].data][k]) = Len(objs[o].times)
            /\ Rows(dicts[objs[o].data][k]) = Rows(objs[o].dataloc)

====
